---- MODULE Spec2Model ----
(***************************************************************************)
(* Model of CoursewareSearchIndexer                                        *)
(* (common/lib/xmodule/xmodule/modulestore/courseware_index.py).           *)
(*                                                                         *)
(* One pass of index_course is a state machine: every call to a            *)
(* collaborator (search engine, modulestore, content node, tracker) is a   *)
(* step, and the recursion of index_item is an explicit stack of frames.   *)
(* The collaborators are modelled at their interface: a call either        *)
(* answers or raises.                                                      *)
(***************************************************************************)
EXTENDS Integers, Sequences, FiniteSets, TLC

VARIABLES
    tree,            \* the published course tree: tree[n] is content node n
    courseStart,     \* course.start
    searcherAvail,   \* whether a search engine is configured
    engine,          \* the documents held by the search engine
    engine0,         \* history: the documents held when the pass was called
    pc,              \* position of the pass
    entry,           \* "index_course" or "do_course_reindex"
    raise_on_error,  \* argument of index_course
    triggered_at,    \* argument of index_course
    course,          \* what modulestore.get_course returned
    indexed_items,   \* set of unicode usage ids
    error_list,      \* sequence of error messages
    indexed_count,   \* local of index_course
    rootKids,        \* children of the course still to be walked (line 112)
    stack,           \* frames of index_item, innermost last
    result_ids,      \* ids still to be removed (line 108)
    ret,             \* how index_course ended
    result,          \* how the entry point ended
    events,          \* what tracker.emit received
    calls,           \* history: the calls made to collaborators, in order
    sched            \* a second pass over the course and the edits of the tree

vars == <<tree, courseStart, searcherAvail, engine, engine0, pc, entry,
          raise_on_error, triggered_at, course, indexed_items, error_list,
          indexed_count, rootKids, stack, result_ids, ret, result, events,
          calls, sched>>

---------------------------------------------------------------------------
(* Bounds and program constants *)

MaxNodes == 2

INDEX_NAME == "courseware_index"
DOCUMENT_TYPE == "courseware_content"
REINDEX_AGE == 60

---------------------------------------------------------------------------
(* Values *)

None == <<>>
Some(v) == <<v>>

\* Python truthiness of an optional value or a dict
Truthy(v) == DOMAIN v # {}

EmptyDict == [k \in {} |-> ""]

\* dict.update: entries of d2 laid over d1
DictUpdate(d1, d2) ==
    [k \in (DOMAIN d1) \cup (DOMAIN d2) |-> IF k \in DOMAIN d2 THEN d2[k] ELSE d1[k]]

\* Opaque keys and their string form
CourseA == [org |-> "A"]
CourseB == [org |-> "B"]
course_key == CourseA

UsageKey(k, n) == [course |-> k, block |-> n]

Unicode(key) ==
    IF "block" \in DOMAIN key
    THEN "block:" \o key.course.org \o "/" \o ToString(key.block)
    ELSE "course:" \o key.org

NodeIds == 1..MaxNodes
\* one more usage id than the tree can hold: a block that left the tree
AllIds == 1..(MaxNodes + 1)

item_id_of(n) == Unicode(UsageKey(course_key, n))

---------------------------------------------------------------------------
(* Content nodes (the modulestore's view of the tree) *)

\* tree[n].parent = 0 means n is a child of the course
Children(t, p) ==
    LET kids == {n \in DOMAIN t : t[n].parent = p}
        RECURSIVE Asc(_)
        Asc(S) == IF S = {} THEN <<>>
                  ELSE LET m == CHOOSE x \in S : \A y \in S : x <= y
                       IN <<m>> \o Asc(S \ {m})
    IN Asc(kids)

TitleDict == [title |-> "x"]

EditTimes == {10, 40}
TriggerTimes == {100}

NodeRecs(k, Starts, Dicts) ==
    [parent : 0..(k - 1), indexable : BOOLEAN, has_children : BOOLEAN,
     start : Starts, subtree_edited_on : EditTimes, dict : Dicts]

\* a block type without children has none, and only an indexable block has
\* an index_dictionary
WellFormed(t) ==
    \A n \in DOMAIN t :
        /\ t[n].parent < n
        /\ t[n].parent # 0 => t[t[n].parent].has_children
        /\ ~t[n].indexable => t[n].dict = EmptyDict

Trees(Starts, Dicts) ==
    UNION {{t \in [1..k -> NodeRecs(k, Starts, Dicts)] : WellFormed(t)} : k \in 0..MaxNodes}

\* courses that are one chain: node 1 under the course, node n + 1 under node
\* n, down to a node that may be a leaf of any kind
ChainTrees(Starts, Edits, Dicts) ==
    {t \in [1..(MaxNodes + 1) ->
              [parent : 0..MaxNodes, indexable : BOOLEAN, has_children : BOOLEAN,
               start : Starts, subtree_edited_on : Edits,
               dict : Dicts \cup {EmptyDict}]] :
        /\ WellFormed(t)
        /\ \A n \in DOMAIN t :
              /\ t[n].parent = n - 1
              /\ t[n].indexable => t[n].dict \in Dicts}

\* courses of every shape on one node more than a chain: every node but the
\* last is indexable with a title and has children exactly when a node names
\* it as parent; the last node, a leaf, is of any kind
BranchTrees ==
    {t \in [1..(MaxNodes + 2) ->
              [parent : 0..(MaxNodes + 1), indexable : BOOLEAN,
               has_children : BOOLEAN, start : {None},
               subtree_edited_on : {10}, dict : {EmptyDict, TitleDict}]] :
        /\ WellFormed(t)
        /\ \A n \in DOMAIN t :
              /\ t[n].has_children = (\E m \in DOMAIN t : t[m].parent = n)
              /\ n < MaxNodes + 2 => (t[n].indexable /\ t[n].dict = TitleDict)}

---------------------------------------------------------------------------
(* The search engine, at its interface: index upserts by id, search answers
   the ids of the documents matching every field and not excluded, remove
   deletes by id *)

EngineIndex(e, doc) == {d \in e : d.id # doc.id} \cup {doc}

EngineSearch(e, field_dictionary, exclude_ids) ==
    {d.id : d \in {x \in e : /\ \A f \in DOMAIN field_dictionary :
                                    f \in DOMAIN x /\ x[f] = field_dictionary[f]
                             /\ x.id \notin exclude_ids}}

EngineRemove(e, id) == {d \in e : d.id # id}

\* the orders in which the engine may list a set of results
Orderings(S) ==
    {s \in [1..Cardinality(S) -> S] : \A i, j \in DOMAIN s : i # j => s[i] # s[j]}

OldDoc(k, n) == [course |-> Unicode(k), id |-> Unicode(UsageKey(k, n)), title |-> "old"]

\* what earlier passes may have left: nothing, or a document for every block
\* of the course (also for one that has since left the tree) and one of
\* another course
PriorIndexes == {{}, {OldDoc(course_key, n) : n \in AllIds} \cup {OldDoc(CourseB, 1)}}

---------------------------------------------------------------------------
(* The decisions of index_course, as the code computes them *)

\* is_candidate that walks indexable items only
is_candidate_IndexableOnly(item) == item.indexable

\* is_candidate that walks every item
is_candidate_All(item) == TRUE

\* lines 58-60: the item is walked when it is indexable or has children
is_candidate(item) == ~(~item.indexable /\ ~item.has_children)

\* apply_start that takes every defined start, later or not
apply_start_Own(item_start, current_start_date) ==
    IF Truthy(item_start) THEN item_start ELSE current_start_date

\* lines 67-68: a defined, later start replaces the inherited one
apply_start(item_start, current_start_date) ==
    IF Truthy(item_start) /\ (~Truthy(current_start_date) \/ item_start[1] > current_start_date[1])
    THEN item_start
    ELSE current_start_date

\* skip_child_index_of that looks at the item's own age only
skip_child_index_OwnAge(skip_index, trig, subtree_edited_on) ==
    trig # None /\ (trig[1] - subtree_edited_on) > REINDEX_AGE

\* skip_child_index_of that skips at the threshold already
skip_child_index_AtAge(skip_index, trig, subtree_edited_on) ==
    skip_index \/ (trig # None /\ (trig[1] - subtree_edited_on) >= REINDEX_AGE)

\* skip_child_index_of without the age test
skip_child_index_NoAge(skip_index, trig, subtree_edited_on) == skip_index

\* lines 71-72
skip_child_index_of(skip_index, trig, subtree_edited_on) ==
    skip_index \/ (trig # None /\ (trig[1] - subtree_edited_on) > REINDEX_AGE)

\* lines 48-50
location_info == [course |-> Unicode(course_key)]

\* item_index_of that sets the id before the item's own fields are laid over
item_index_NodeIdWins(item_id, item_index_dictionary, current_start_date) ==
    LET a == DictUpdate(DictUpdate(EmptyDict, location_info), [id |-> item_id])
        b == DictUpdate(a, item_index_dictionary)
    IN IF Truthy(current_start_date)
       THEN DictUpdate(b, [start_date |-> current_start_date[1]])
       ELSE b

\* lines 79, 85-89
item_index_of(item_id, item_index_dictionary, current_start_date) ==
    LET a == DictUpdate(DictUpdate(EmptyDict, location_info), item_index_dictionary)
        b == DictUpdate(a, [id |-> item_id])
    IN IF Truthy(current_start_date)
       THEN DictUpdate(b, [start_date |-> current_start_date[1]])
       ELSE b

\* line 95: the message names item.location
item_error(n) == <<"Could not index item: {}", UsageKey(course_key, n)>>

\* line 122
general_error == <<"General indexing error occurred">>

\* search_args without the exclusion set
search_args_NoExclude(items) ==
    [doc_type |-> DOCUMENT_TYPE,
     field_dictionary |-> [course |-> Unicode(course_key)],
     exclude_ids |-> {}]

\* lines 102-106: the arguments of searcher.search
search_args(items) ==
    [doc_type |-> DOCUMENT_TYPE,
     field_dictionary |-> [course |-> Unicode(course_key)],
     exclude_ids |-> items]

\* should_raise without the test of the error list
should_raise_Always(roe, errs) == roe

\* line 124
should_raise(roe, errs) == roe /\ errs # <<>>

\* line 125
SearchIndexingError(errs) == <<"raise", "SearchIndexingError", "Error(s) present during indexing", errs>>

\* lines 149-155
track_data(count, location) ==
    LET data == [indexed_count |-> count, category |-> "courseware_index"]
    IN IF Truthy(location) THEN DictUpdate(data, [location_id |-> location[1]]) ELSE data

---------------------------------------------------------------------------
(* Initial states *)

\* the locals of a pass that has not been called
IdleLocals ==
    [pc |-> "idle", entry |-> "none", raise_on_error |-> FALSE,
     triggered_at |-> None, course |-> None, indexed_items |-> {},
     error_list |-> <<>>, indexed_count |-> 0, rootKids |-> <<>>,
     stack |-> <<>>, result_ids |-> <<>>, ret |-> None, result |-> None,
     calls |-> <<>>, engine0 |-> {}]

\* pass 1 is the one that steps, the other pass is not called, the tree is as
\* it was
NoSched ==
    [other |-> IdleLocals, active |-> 1, edited |-> FALSE, oldView |-> {},
     overlapped |-> FALSE]

InitWith(Starts, Dicts) ==
    /\ tree \in Trees(Starts, Dicts)
    /\ courseStart \in Starts
    /\ searcherAvail \in BOOLEAN
    /\ engine \in PriorIndexes
    /\ engine0 = engine
    /\ pc = "idle"
    /\ entry = "none"
    /\ raise_on_error = FALSE
    /\ triggered_at = None
    /\ course = None
    /\ indexed_items = {}
    /\ error_list = <<>>
    /\ indexed_count = 0
    /\ rootKids = <<>>
    /\ stack = <<>>
    /\ result_ids = <<>>
    /\ ret = None
    /\ result = None
    /\ events = <<>>
    /\ calls = <<>>
    /\ sched = NoSched

\* a pass over a chain of nodes
InitChain(Starts, Edits, Dicts) ==
    /\ tree \in ChainTrees(Starts, Edits, Dicts)
    /\ courseStart \in Starts
    /\ searcherAvail \in BOOLEAN
    /\ engine \in PriorIndexes
    /\ engine0 = engine
    /\ pc = "idle"
    /\ entry = "none"
    /\ raise_on_error = FALSE
    /\ triggered_at = None
    /\ course = None
    /\ indexed_items = {}
    /\ error_list = <<>>
    /\ indexed_count = 0
    /\ rootKids = <<>>
    /\ stack = <<>>
    /\ result_ids = <<>>
    /\ ret = None
    /\ result = None
    /\ events = <<>>
    /\ calls = <<>>
    /\ sched = NoSched

InitDeep == InitChain({None}, EditTimes, {TitleDict})

\* a field mapping that brings its own id, course and start_date
OverDict == [title |-> "x", id |-> "bogus", course |-> "elsewhere", start_date |-> 9]

\* over an index that holds documents of earlier passes
InitDoc ==
    /\ InitChain({None, Some(1)}, {10}, {EmptyDict, TitleDict, OverDict})
    /\ engine # {}

StartDates == {None, Some(1), Some(2)}

InitStart == InitChain(StartDates, {10}, {TitleDict})

\* a pass over a course with branches; the index is empty or holds an old
\* document for every node and for a block that left the course
InitBranch ==
    /\ tree \in BranchTrees
    /\ courseStart = None
    /\ searcherAvail \in BOOLEAN
    /\ engine \in {{}, {OldDoc(course_key, n) : n \in 1..(MaxNodes + 3)}}
    /\ engine0 = engine
    /\ pc = "idle"
    /\ entry = "none"
    /\ raise_on_error = FALSE
    /\ triggered_at = None
    /\ course = None
    /\ indexed_items = {}
    /\ error_list = <<>>
    /\ indexed_count = 0
    /\ rootKids = <<>>
    /\ stack = <<>>
    /\ result_ids = <<>>
    /\ ret = None
    /\ result = None
    /\ events = <<>>
    /\ calls = <<>>
    /\ sched = NoSched

Init == InitWith({None}, {EmptyDict, TitleDict})

---------------------------------------------------------------------------
(* Entry points *)

Env == <<tree, courseStart, searcherAvail, engine0, sched>>

\* lines 38, 42-43: a caller invokes index_course
index_course(roe, trig) ==
    /\ pc = "idle"
    /\ entry' = "index_course"
    /\ raise_on_error' = roe
    /\ triggered_at' = trig
    /\ error_list' = <<>>
    /\ indexed_count' = 0
    /\ pc' = "get_search_engine"
    /\ UNCHANGED <<Env, engine, course, indexed_items, rootKids, stack,
                   result_ids, ret, result, events, calls>>

\* lines 130, 134: do_course_reindex invokes index_course with raise_on_error=True
do_course_reindex(trig) ==
    /\ pc = "idle"
    /\ entry' = "do_course_reindex"
    /\ raise_on_error' = TRUE
    /\ triggered_at' = trig
    /\ error_list' = <<>>
    /\ indexed_count' = 0
    /\ pc' = "get_search_engine"
    /\ UNCHANGED <<Env, engine, course, indexed_items, rootKids, stack,
                   result_ids, ret, result, events, calls>>

\* Leave that goes on to line 135 whatever index_course did
Leave_AlwaysTracks(r) ==
    /\ ret' = r
    /\ IF entry = "do_course_reindex"
       THEN pc' = "track" /\ result' = result
       ELSE pc' = "done" /\ result' = r

\* how index_course hands its outcome r to its caller: do_course_reindex
\* goes on to line 135 after a return and lets anything raised pass through
Leave(r) ==
    /\ ret' = r
    /\ IF entry = "do_course_reindex" /\ r[1] = "return"
       THEN pc' = "track" /\ result' = result
       ELSE pc' = "done" /\ result' = r

---------------------------------------------------------------------------
(* index_course, lines 44-54 *)

\* GetSearchEngineAbsent without the return of line 46
GetSearchEngineAbsent_Continues ==
    /\ pc = "get_search_engine"
    /\ ~searcherAvail
    /\ calls' = Append(calls, <<"get_search_engine", INDEX_NAME, "none">>)
    /\ indexed_items' = {}
    /\ pc' = "get_course"
    /\ UNCHANGED <<Env, engine, entry, raise_on_error, triggered_at, course,
                   error_list, indexed_count, rootKids, stack, result_ids,
                   ret, result, events>>

\* lines 44-46: no engine, return (None)
GetSearchEngineAbsent ==
    /\ pc = "get_search_engine"
    /\ ~searcherAvail
    /\ calls' = Append(calls, <<"get_search_engine", INDEX_NAME, "none">>)
    /\ Leave(<<"return", None>>)
    /\ UNCHANGED <<Env, engine, entry, raise_on_error, triggered_at, course,
                   indexed_items, error_list, indexed_count, rootKids, stack,
                   result_ids, events>>

\* lines 44-52
GetSearchEngineOk ==
    /\ pc = "get_search_engine"
    /\ searcherAvail
    /\ calls' = Append(calls, <<"get_search_engine", INDEX_NAME, "ok">>)
    /\ indexed_items' = {}
    /\ pc' = "get_course"
    /\ UNCHANGED <<Env, engine, entry, raise_on_error, triggered_at, course,
                   error_list, indexed_count, rootKids, stack, result_ids,
                   ret, result, events>>

\* line 54: the modulestore answers the course
GetCourseOk ==
    /\ pc = "get_course"
    /\ calls' = Append(calls, <<"get_course", course_key, "ok">>)
    /\ course' = Some(course_key)
    /\ pc' = "course_children"
    /\ UNCHANGED <<Env, engine, entry, raise_on_error, triggered_at,
                   indexed_items, error_list, indexed_count, rootKids, stack,
                   result_ids, ret, result, events>>

\* line 54: the modulestore finds no such course and answers None
GetCourseNone ==
    /\ pc = "get_course"
    /\ calls' = Append(calls, <<"get_course", course_key, "none">>)
    /\ course' = None
    /\ pc' = "course_children"
    /\ UNCHANGED <<Env, engine, entry, raise_on_error, triggered_at,
                   indexed_items, error_list, indexed_count, rootKids, stack,
                   result_ids, ret, result, events>>

\* line 54 stands before the try of line 111: what get_course raises leaves
\* index_course as it is
GetCourseRaises ==
    /\ pc = "get_course"
    /\ calls' = Append(calls, <<"get_course", course_key, "raise">>)
    /\ Leave(<<"raise", "ModulestoreFault", "get_course", <<>>>>)
    /\ UNCHANGED <<Env, engine, entry, raise_on_error, triggered_at, course,
                   indexed_items, error_list, indexed_count, rootKids, stack,
                   result_ids, events>>

---------------------------------------------------------------------------
(* The try block, lines 111-122 *)

\* lines 115-122: anything raised inside the try ends the walk and the
\* reconciliation and leaves one general entry
HandleGeneral ==
    /\ error_list' = Append(error_list, general_error)
    /\ stack' = <<>>
    /\ rootKids' = <<>>
    /\ result_ids' = <<>>
    /\ pc' = "finish"

\* line 112: course.get_children()
CourseGetChildrenOk ==
    /\ pc = "course_children"
    /\ course # None
    /\ calls' = Append(calls, <<"get_children", 0, "ok">>)
    /\ rootKids' = Children(tree, 0)
    /\ pc' = "walk"
    /\ UNCHANGED <<Env, engine, entry, raise_on_error, triggered_at, course,
                   indexed_items, error_list, indexed_count, stack,
                   result_ids, ret, result, events>>

\* line 112: course is None (AttributeError) or get_children raises
CourseGetChildrenRaises ==
    /\ pc = "course_children"
    /\ calls' = Append(calls, <<"get_children", 0, "raise">>)
    /\ HandleGeneral
    /\ UNCHANGED <<Env, engine, entry, raise_on_error, triggered_at, course,
                   indexed_items, indexed_count, ret, result, events>>

\* lines 112-113: the next child of the course is handed to index_item
RootLoopNext ==
    /\ pc = "walk"
    /\ stack = <<>>
    /\ rootKids # <<>>
    /\ stack' = <<[item |-> Head(rootKids), current_start_date |-> courseStart,
                   skip_index |-> FALSE, phase |-> "enter", kids |-> <<>>,
                   skip_child_index |-> FALSE]>>
    /\ rootKids' = Tail(rootKids)
    /\ UNCHANGED <<Env, engine, pc, entry, raise_on_error, triggered_at,
                   course, indexed_items, error_list, indexed_count,
                   result_ids, ret, result, events, calls>>

---------------------------------------------------------------------------
(* index_item, lines 56-95: the innermost frame takes the next step *)

Top == stack[Len(stack)]
Pop == SubSeq(stack, 1, Len(stack) - 1)
SetTop(f) == [stack EXCEPT ![Len(stack)] = f]

\* lines 58-61: neither indexable nor with children, ignore
Prune ==
    /\ pc = "walk" /\ stack # <<>>
    /\ Top.phase = "enter"
    /\ ~is_candidate(tree[Top.item])
    /\ stack' = Pop
    /\ UNCHANGED <<Env, engine, pc, entry, raise_on_error, triggered_at,
                   course, indexed_items, error_list, indexed_count, rootKids,
                   result_ids, ret, result, events, calls>>

\* EnterItem that records (line 60) the ids of nodes with children only
EnterItem_LeavesUnrecorded ==
    /\ pc = "walk" /\ stack # <<>>
    /\ Top.phase = "enter"
    /\ is_candidate(tree[Top.item])
    /\ LET item == tree[Top.item]
           hc == item.has_children
       IN /\ indexed_items' = IF hc THEN indexed_items \cup {item_id_of(Top.item)}
                                   ELSE indexed_items
          /\ stack' = SetTop(
                [Top EXCEPT
                   !.current_start_date = apply_start(item.start, Top.current_start_date),
                   !.skip_child_index =
                       IF hc THEN skip_child_index_of(Top.skip_index, triggered_at,
                                                      item.subtree_edited_on)
                             ELSE FALSE,
                   !.kids = IF hc THEN Children(tree, Top.item) ELSE <<>>,
                   !.phase = "children"])
          /\ calls' = IF hc THEN Append(calls, <<"get_children", Top.item, "ok">>)
                            ELSE calls
    /\ UNCHANGED <<Env, engine, pc, entry, raise_on_error, triggered_at,
                   course, error_list, indexed_count, rootKids, result_ids,
                   ret, result, events>>

\* lines 63-73: record the id, settle the start date, and for an item with
\* children settle skip_child_index and fetch the children
EnterItem ==
    /\ pc = "walk" /\ stack # <<>>
    /\ Top.phase = "enter"
    /\ is_candidate(tree[Top.item])
    /\ LET item == tree[Top.item]
           hc == item.has_children
       IN /\ indexed_items' = indexed_items \cup {item_id_of(Top.item)}
          /\ stack' = SetTop(
                [Top EXCEPT
                   !.current_start_date = apply_start(item.start, Top.current_start_date),
                   !.skip_child_index =
                       IF hc THEN skip_child_index_of(Top.skip_index, triggered_at,
                                                      item.subtree_edited_on)
                             ELSE FALSE,
                   !.kids = IF hc THEN Children(tree, Top.item) ELSE <<>>,
                   !.phase = "children"])
          /\ calls' = IF hc THEN Append(calls, <<"get_children", Top.item, "ok">>)
                            ELSE calls
    /\ UNCHANGED <<Env, engine, pc, entry, raise_on_error, triggered_at,
                   course, error_list, indexed_count, rootKids, result_ids,
                   ret, result, events>>

\* line 73: item.get_children() raises; nothing in index_item catches it
GetChildrenRaises ==
    /\ pc = "walk" /\ stack # <<>>
    /\ Top.phase = "enter"
    /\ is_candidate(tree[Top.item])
    /\ tree[Top.item].has_children
    /\ indexed_items' = indexed_items \cup {item_id_of(Top.item)}
    /\ calls' = Append(calls, <<"get_children", Top.item, "raise">>)
    /\ HandleGeneral
    /\ UNCHANGED <<Env, engine, entry, raise_on_error, triggered_at, course,
                   indexed_count, ret, result, events>>

\* RecurseChild that takes the children (line 73) from the last to the first
RecurseChild_LastFirst ==
    /\ pc = "walk" /\ stack # <<>>
    /\ Top.phase = "children"
    /\ Top.kids # <<>>
    /\ stack' = Append(SetTop([Top EXCEPT !.kids = SubSeq(Top.kids, 1, Len(Top.kids) - 1)]),
                       [item |-> Top.kids[Len(Top.kids)],
                        current_start_date |-> Top.current_start_date,
                        skip_index |-> Top.skip_child_index,
                        phase |-> "enter", kids |-> <<>>,
                        skip_child_index |-> FALSE])
    /\ UNCHANGED <<Env, engine, pc, entry, raise_on_error, triggered_at,
                   course, indexed_items, error_list, indexed_count, rootKids,
                   result_ids, ret, result, events, calls>>

\* lines 73-74: index_item(child_item, current_start_date, skip_child_index)
RecurseChild ==
    /\ pc = "walk" /\ stack # <<>>
    /\ Top.phase = "children"
    /\ Top.kids # <<>>
    /\ stack' = Append(SetTop([Top EXCEPT !.kids = Tail(Top.kids)]),
                       [item |-> Head(Top.kids),
                        current_start_date |-> Top.current_start_date,
                        skip_index |-> Top.skip_child_index,
                        phase |-> "enter", kids |-> <<>>,
                        skip_child_index |-> FALSE])
    /\ UNCHANGED <<Env, engine, pc, entry, raise_on_error, triggered_at,
                   course, indexed_items, error_list, indexed_count, rootKids,
                   result_ids, ret, result, events, calls>>

\* the children are done and the item's own document is next
AtOwnDocument == pc = "walk" /\ stack # <<>> /\ Top.phase = "children" /\ Top.kids = <<>>

\* lines 76-77
ReturnSkipped ==
    /\ AtOwnDocument
    /\ Top.skip_index
    /\ stack' = Pop
    /\ UNCHANGED <<Env, engine, pc, entry, raise_on_error, triggered_at,
                   course, indexed_items, error_list, indexed_count, rootKids,
                   result_ids, ret, result, events, calls>>

\* lines 79-83: not indexable, or index_dictionary() answers nothing
NothingToIndex ==
    /\ AtOwnDocument
    /\ ~Top.skip_index
    /\ ~(tree[Top.item].indexable /\ Truthy(tree[Top.item].dict))
    /\ calls' = IF tree[Top.item].indexable
                THEN Append(calls, <<"index_dictionary", Top.item, "ok">>)
                ELSE calls
    /\ stack' = Pop
    /\ UNCHANGED <<Env, engine, pc, entry, raise_on_error, triggered_at,
                   course, indexed_items, error_list, indexed_count, rootKids,
                   result_ids, ret, result, events>>

\* line 80 stands before the try of line 84: what index_dictionary() raises
\* leaves index_item and every index_item above it
IndexDictionaryRaises ==
    /\ AtOwnDocument
    /\ ~Top.skip_index
    /\ tree[Top.item].indexable
    /\ calls' = Append(calls, <<"index_dictionary", Top.item, "raise">>)
    /\ HandleGeneral
    /\ UNCHANGED <<Env, engine, entry, raise_on_error, triggered_at, course,
                   indexed_items, indexed_count, ret, result, events>>

\* lines 80-91: the document is built and the engine takes it
SearcherIndexOk ==
    /\ AtOwnDocument
    /\ ~Top.skip_index
    /\ tree[Top.item].indexable /\ Truthy(tree[Top.item].dict)
    /\ LET doc == item_index_of(item_id_of(Top.item), tree[Top.item].dict,
                                Top.current_start_date)
       IN /\ engine' = EngineIndex(engine, doc)
          /\ calls' = calls \o <<<<"index_dictionary", Top.item, "ok">>,
                                 <<"index", doc, "ok">>>>
    /\ stack' = Pop
    /\ UNCHANGED <<Env, pc, entry, raise_on_error, triggered_at, course,
                   indexed_items, error_list, indexed_count, rootKids,
                   result_ids, ret, result, events>>

\* SearcherIndexRaises that lets the fault leave index_item
SearcherIndexRaises_Escapes ==
    /\ AtOwnDocument
    /\ ~Top.skip_index
    /\ tree[Top.item].indexable /\ Truthy(tree[Top.item].dict)
    /\ LET doc == item_index_of(item_id_of(Top.item), tree[Top.item].dict,
                                Top.current_start_date)
       IN calls' = calls \o <<<<"index_dictionary", Top.item, "ok">>,
                              <<"index", doc, "raise">>>>
    /\ HandleGeneral
    /\ UNCHANGED <<Env, engine, entry, raise_on_error, triggered_at, course,
                   indexed_items, indexed_count, ret, result, events>>

\* lines 91-95: searcher.index raises, the item is noted and the walk goes on
SearcherIndexRaises ==
    /\ AtOwnDocument
    /\ ~Top.skip_index
    /\ tree[Top.item].indexable /\ Truthy(tree[Top.item].dict)
    /\ LET doc == item_index_of(item_id_of(Top.item), tree[Top.item].dict,
                                Top.current_start_date)
       IN calls' = calls \o <<<<"index_dictionary", Top.item, "ok">>,
                              <<"index", doc, "raise">>>>
    /\ error_list' = Append(error_list, item_error(Top.item))
    /\ stack' = Pop
    /\ UNCHANGED <<Env, engine, pc, entry, raise_on_error, triggered_at,
                   course, indexed_items, indexed_count, rootKids, result_ids,
                   ret, result, events>>

---------------------------------------------------------------------------
(* remove_deleted_items, lines 97-109 *)

\* RootLoopDone that does not wait for the last child of the course
RootLoopDone_Early ==
    /\ pc = "walk"
    /\ stack = <<>>
    /\ pc' = "search"
    /\ UNCHANGED <<Env, engine, entry, raise_on_error, triggered_at, course,
                   indexed_items, error_list, indexed_count, rootKids, stack,
                   result_ids, ret, result, events, calls>>

\* line 114: the loop of line 112 is over
RootLoopDone ==
    /\ pc = "walk"
    /\ stack = <<>>
    /\ rootKids = <<>>
    /\ pc' = "search"
    /\ UNCHANGED <<Env, engine, entry, raise_on_error, triggered_at, course,
                   indexed_items, error_list, indexed_count, rootKids, stack,
                   result_ids, ret, result, events, calls>>

\* lines 102-107
SearchOk ==
    /\ pc = "search"
    /\ LET args == search_args(indexed_items)
       IN /\ \E order \in Orderings(EngineSearch(engine, args.field_dictionary,
                                                 args.exclude_ids)) :
                /\ result_ids' = order
                /\ pc' = IF order = <<>> THEN "finish" ELSE "remove"
          /\ calls' = Append(calls, <<"search", args, "ok">>)
    /\ UNCHANGED <<Env, engine, entry, raise_on_error, triggered_at, course,
                   indexed_items, error_list, indexed_count, rootKids, stack,
                   ret, result, events>>

\* line 102: searcher.search raises
SearchRaises ==
    /\ pc = "search"
    /\ calls' = Append(calls, <<"search", search_args(indexed_items), "raise">>)
    /\ HandleGeneral
    /\ UNCHANGED <<Env, engine, entry, raise_on_error, triggered_at, course,
                   indexed_items, indexed_count, ret, result, events>>

\* lines 108-109
RemoveOk ==
    /\ pc = "remove"
    /\ result_ids # <<>>
    /\ engine' = EngineRemove(engine, Head(result_ids))
    /\ calls' = Append(calls, <<"remove", Head(result_ids), "ok">>)
    /\ result_ids' = Tail(result_ids)
    /\ pc' = IF Tail(result_ids) = <<>> THEN "finish" ELSE "remove"
    /\ UNCHANGED <<Env, entry, raise_on_error, triggered_at, course,
                   indexed_items, error_list, indexed_count, rootKids, stack,
                   ret, result, events>>

\* RemoveRaises that swallows the fault and goes on with the next id
RemoveRaises_Swallowed ==
    /\ pc = "remove"
    /\ result_ids # <<>>
    /\ calls' = Append(calls, <<"remove", Head(result_ids), "raise">>)
    /\ result_ids' = Tail(result_ids)
    /\ pc' = IF Tail(result_ids) = <<>> THEN "finish" ELSE "remove"
    /\ UNCHANGED <<Env, engine, entry, raise_on_error, triggered_at, course,
                   indexed_items, error_list, indexed_count, rootKids, stack,
                   ret, result, events>>

\* line 109: searcher.remove raises
RemoveRaises ==
    /\ pc = "remove"
    /\ result_ids # <<>>
    /\ calls' = Append(calls, <<"remove", Head(result_ids), "raise">>)
    /\ HandleGeneral
    /\ UNCHANGED <<Env, engine, entry, raise_on_error, triggered_at, course,
                   indexed_items, indexed_count, ret, result, events>>

---------------------------------------------------------------------------
(* The end of index_course, lines 124-127, and of do_course_reindex *)

\* lines 124-125
FinishRaise ==
    /\ pc = "finish"
    /\ should_raise(raise_on_error, error_list)
    /\ Leave(SearchIndexingError(error_list))
    /\ UNCHANGED <<Env, engine, entry, raise_on_error, triggered_at, course,
                   indexed_items, error_list, indexed_count, rootKids, stack,
                   result_ids, events, calls>>

\* line 127
FinishReturn ==
    /\ pc = "finish"
    /\ ~should_raise(raise_on_error, error_list)
    /\ Leave(<<"return", Some(indexed_count)>>)
    /\ UNCHANGED <<Env, engine, entry, raise_on_error, triggered_at, course,
                   indexed_items, error_list, indexed_count, rootKids, stack,
                   result_ids, events, calls>>

\* lines 135-136 and 139-160: the event is emitted and the count returned
track_index_request ==
    /\ pc = "track"
    /\ LET event == <<"edx.course.index.reindexed", track_data(ret[2], None)>>
       IN /\ events' = Append(events, event)
          /\ calls' = Append(calls, <<"emit", event, "ok">>)
    /\ result' = <<"return", ret[2]>>
    /\ pc' = "done"
    /\ UNCHANGED <<Env, engine, entry, raise_on_error, triggered_at, course,
                   indexed_items, error_list, indexed_count, rootKids, stack,
                   result_ids, ret>>

---------------------------------------------------------------------------

Triggers == {None} \cup {Some(t) : t \in TriggerTimes}

Next ==
    \/ \E roe \in BOOLEAN, trig \in Triggers : index_course(roe, trig)
    \/ \E trig \in Triggers : do_course_reindex(trig)
    \/ GetSearchEngineAbsent
    \/ GetSearchEngineOk
    \/ GetCourseOk
    \/ GetCourseNone
    \/ GetCourseRaises
    \/ CourseGetChildrenOk
    \/ CourseGetChildrenRaises
    \/ RootLoopNext
    \/ Prune
    \/ EnterItem
    \/ GetChildrenRaises
    \/ RecurseChild
    \/ ReturnSkipped
    \/ NothingToIndex
    \/ IndexDictionaryRaises
    \/ SearcherIndexOk
    \/ SearcherIndexRaises
    \/ RootLoopDone
    \/ SearchOk
    \/ SearchRaises
    \/ RemoveOk
    \/ RemoveRaises
    \/ FinishRaise
    \/ FinishReturn
    \/ track_index_request

Spec == Init /\ [][Next]_vars

\* passes over chains of nodes of every age
SpecDeep == InitDeep /\ [][Next]_vars

\* passes over chains of nodes with and without start dates
SpecStart == InitStart /\ [][Next]_vars

\* passes over chains of nodes whose field mappings are empty or bring their
\* own id, course and start_date
SpecDoc == InitDoc /\ [][Next]_vars

\* passes over courses whose nodes have several children
SpecBranch == InitBranch /\ [][Next]_vars

---------------------------------------------------------------------------
(* two passes over the same course, and a course that is edited *)

\* the locals of the pass that is stepping (lines 42-52 and the frames of
\* index_item), with the calls it made and the index as it was at its call
Locals ==
    [pc |-> pc, entry |-> entry, raise_on_error |-> raise_on_error,
     triggered_at |-> triggered_at, course |-> course,
     indexed_items |-> indexed_items, error_list |-> error_list,
     indexed_count |-> indexed_count, rootKids |-> rootKids, stack |-> stack,
     result_ids |-> result_ids, ret |-> ret, result |-> result,
     calls |-> calls, engine0 |-> engine0]

\* line 54 has answered in the pass that made the calls c: the local course
\* is bound; a pass that returned at line 46, or whose get_course raised,
\* fetched nothing
HasFetched(c) ==
    \E i \in DOMAIN c : c[i][1] = "get_course" /\ c[i][3] # "raise"

\* nothing in lines 38-127 holds a lock: the pass that is stepping stops
\* where it is and the other pass goes on from where it was; each pass keeps
\* its own locals, the search engine and the modulestore are shared
Switch ==
    /\ pc # "idle"
    /\ sched.other.pc # "done"
    /\ sched' = [sched EXCEPT
                   !.other = Locals,
                   !.active = 3 - @,
                   !.overlapped = @ \/ pc # "done"]
    /\ pc' = sched.other.pc
    /\ entry' = sched.other.entry
    /\ raise_on_error' = sched.other.raise_on_error
    /\ triggered_at' = sched.other.triggered_at
    /\ course' = sched.other.course
    /\ indexed_items' = sched.other.indexed_items
    /\ error_list' = sched.other.error_list
    /\ indexed_count' = sched.other.indexed_count
    /\ rootKids' = sched.other.rootKids
    /\ stack' = sched.other.stack
    /\ result_ids' = sched.other.result_ids
    /\ ret' = sched.other.ret
    /\ result' = sched.other.result
    /\ calls' = sched.other.calls
    /\ engine0' = IF sched.other.pc = "idle" THEN engine
                                             ELSE sched.other.engine0
    /\ UNCHANGED <<tree, courseStart, searcherAvail, engine, events>>

\* the course gains an indexable leaf under the course or under a container;
\* a pass that had fetched the course by then (line 54) walks the old tree or
\* the new one
AddNode ==
    /\ ~sched.edited
    /\ Len(tree) < MaxNodes
    /\ \E p \in {0} \cup {q \in DOMAIN tree : tree[q].has_children} :
          tree' = Append(tree, [parent |-> p, indexable |-> TRUE,
                                has_children |-> FALSE, start |-> None,
                                subtree_edited_on |-> 40, dict |-> TitleDict])
    /\ sched' = [sched EXCEPT
                   !.edited = TRUE,
                   !.oldView =
                       (IF HasFetched(calls) THEN {sched.active} ELSE {})
                       \cup (IF HasFetched(sched.other.calls)
                                THEN {3 - sched.active} ELSE {})]
    /\ UNCHANGED <<courseStart, searcherAvail, engine, engine0, pc, entry,
                   raise_on_error, triggered_at, course, indexed_items,
                   error_list, indexed_count, rootKids, stack, result_ids,
                   ret, result, events, calls>>

\* courses one node short of the bound, so that the course can gain a node
InitTwo ==
    /\ Init
    /\ Len(tree) < MaxNodes
    /\ \A n \in DOMAIN tree : tree[n].subtree_edited_on = 10

\* full passes (triggered_at absent) whose calls all answer, so that
\* raise_on_error has nothing to decide
NextTwo ==
    \/ index_course(FALSE, None)
    \/ GetSearchEngineAbsent
    \/ GetSearchEngineOk
    \/ GetCourseOk
    \/ CourseGetChildrenOk
    \/ RootLoopNext
    \/ Prune
    \/ EnterItem
    \/ RecurseChild
    \/ NothingToIndex
    \/ SearcherIndexOk
    \/ RootLoopDone
    \/ SearchOk
    \/ RemoveOk
    \/ FinishReturn
    \/ Switch
    \/ AddNode

\* two passes over one course that is edited once, in every interleaving
SpecTwo == InitTwo /\ [][NextTwo]_vars

TypeOK ==
    /\ pc \in {"idle", "get_search_engine", "get_course", "course_children",
               "walk", "search", "remove", "finish", "track", "done"}
    /\ indexed_count = 0 \/ indexed_count > 0

---------------------------------------------------------------------------
(* What a pass did, read from the record of its calls *)

Range(q) == {q[i] : i \in DOMAIN q}

CallIdx(op) == {i \in DOMAIN calls : calls[i][1] = op}
RaisedIn(op) == \E i \in CallIdx(op) : calls[i][3] = "raise"
AnsweredIn(op) == \E i \in CallIdx(op) : calls[i][3] = "ok"

\* ids handed to searcher.remove, and those the engine took
RemoveArgs == {calls[i][2] : i \in CallIdx("remove")}

\* calls of searcher.index for node n, and of n.index_dictionary()
IndexCallsFor(n) == {i \in CallIdx("index") : calls[i][2].id = item_id_of(n)}
BuildCallsFor(n) == {i \in CallIdx("index_dictionary") : calls[i][2] = n}

\* documents the engine took in this pass
PushedDocs == {calls[i][2] : i \in {j \in CallIdx("index") : calls[j][3] = "ok"}}

\* the engine's documents when the walk is over: re-indexing an id overwrites
EngineAfterWalk ==
    {d \in engine0 : \A p \in PushedDocs : p.id # d.id} \cup PushedDocs

CourseIds(e) == {d.id : d \in {x \in e : x.course = Unicode(course_key)}}

PassOver == pc \in {"finish", "track", "done"}

\* the walk of every child of the course returned
WalkCompleted == CallIdx("search") # {}

\* remove_deleted_items returned
ReconcileCompleted ==
    /\ PassOver
    /\ AnsweredIn("search")
    /\ ~RaisedIn("remove")

NoFaultBut(ops) == \A i \in DOMAIN calls : calls[i][3] = "raise" => calls[i][1] \in ops

RECURSIVE Ancestors(_)
\* the nodes above n, below the course
Ancestors(n) ==
    IF tree[n].parent = 0 THEN {}
    ELSE {tree[n].parent} \cup Ancestors(tree[n].parent)

\* triggered_at - subtree_edited_on exceeds the staleness threshold
Stale(n) ==
    /\ triggered_at # None
    /\ triggered_at[1] - tree[n].subtree_edited_on > REINDEX_AGE

UnderStale(n) == \E a \in Ancestors(n) : Stale(a)

---------------------------------------------------------------------------
(* C1 *)

\* C1: reconciliation never hands searcher.remove an id of the indexed-id
\* set or an id the engine does not hold for the course, and once
\* remove_deleted_items has returned the ids handed to searcher.remove are
\* exactly the ids the engine held for the course minus the indexed-id set.
C1_ReconcileExact ==
    /\ RemoveArgs \subseteq (CourseIds(EngineAfterWalk) \ indexed_items)
    /\ ReconcileCompleted =>
          /\ RemoveArgs = CourseIds(EngineAfterWalk) \ indexed_items
          /\ CourseIds(engine) = CourseIds(EngineAfterWalk) \cap indexed_items

\* a finished reconciliation that removed a block gone from the tree and
\* kept the old document of a recorded block for which nothing was pushed
C1_Witness ==
    /\ ReconcileCompleted
    /\ item_id_of(MaxNodes + 1) \in RemoveArgs
    /\ \E n \in DOMAIN tree :
          /\ item_id_of(n) \in indexed_items
          /\ IndexCallsFor(n) = {}
          /\ OldDoc(course_key, n) \in engine

---------------------------------------------------------------------------
(* C2 *)

\* C2 as stated: in a pass with triggered_at set, a candidate node whose own
\* (triggered_at - subtree_edited_on) exceeds 60 seconds has no document
\* built or pushed, is not removed, and is in the indexed-id set after the
\* walk.
C2_StaleNodeNotPushed ==
    \A n \in DOMAIN tree :
        (is_candidate(tree[n]) /\ Stale(n)) =>
            /\ BuildCallsFor(n) = {}
            /\ IndexCallsFor(n) = {}
            /\ item_id_of(n) \notin RemoveArgs
            /\ WalkCompleted => item_id_of(n) \in indexed_items

\* C2, amended: a candidate node that has an ancestor below the course whose
\* (triggered_at - subtree_edited_on) exceeds 60 seconds has no document
\* built or pushed, is in the indexed-id set once the walk is over, is never
\* removed, and the document the engine held for it stays as it was.
C2_SkipUnderStale ==
    \A n \in DOMAIN tree :
        (is_candidate(tree[n]) /\ UnderStale(n)) =>
            /\ BuildCallsFor(n) = {}
            /\ IndexCallsFor(n) = {}
            /\ item_id_of(n) \notin RemoveArgs
            /\ WalkCompleted => item_id_of(n) \in indexed_items
            /\ \A d \in engine0 : d.id = item_id_of(n) => d \in engine

\* a finished triggered pass over an indexable node under a stale parent whose
\* old document survived a reconciliation that removed something else
C2_Witness ==
    /\ ReconcileCompleted
    /\ RemoveArgs # {}
    /\ \E n \in DOMAIN tree :
          /\ UnderStale(n)
          /\ tree[n].indexable /\ Truthy(tree[n].dict)
          /\ item_id_of(n) \in indexed_items
          /\ OldDoc(course_key, n) \in engine

---------------------------------------------------------------------------
(* C3 *)

\* an entry of the error list that names node n
NamesNode(e, n) == Len(e) = 2 /\ e[2] = UsageKey(course_key, n)

\* C3: when index_dictionary() of a node raises (and nothing else does), the
\* pass ends with an error entry naming that node, with every candidate node
\* recorded and with the reconciliation search issued.
C3_BuildFaultIsolated ==
    \A n \in DOMAIN tree :
        (/\ PassOver
         /\ \E i \in BuildCallsFor(n) : calls[i][3] = "raise"
         /\ NoFaultBut({"index_dictionary"})) =>
            /\ \E e \in Range(error_list) : NamesNode(e, n)
            /\ \A m \in DOMAIN tree :
                  is_candidate(tree[m]) => item_id_of(m) \in indexed_items
            /\ WalkCompleted

---------------------------------------------------------------------------
(* C4 *)

NodeOfId(id) == CHOOSE n \in AllIds : item_id_of(n) = id

RECURSIVE ExpectedErrors(_)
\* the error entries a record of calls accounts for, in order: a failed push
\* names its node, anything else raised inside the try is one general entry
ExpectedErrors(q) ==
    IF q = <<>> THEN <<>>
    ELSE LET c == Head(q)
         IN (IF c[3] = "raise" /\ c[1] # "get_course"
             THEN <<IF c[1] = "index"
                    THEN <<"Could not index item: {}", UsageKey(course_key, NodeOfId(c[2].id))>>
                    ELSE <<"General indexing error occurred">>>>
             ELSE <<>>) \o ExpectedErrors(Tail(q))

\* a document is due for n: indexable, something to index, not under a stale
\* ancestor
ShouldPush(n) ==
    tree[n].indexable /\ Truthy(tree[n].dict) /\ ~UnderStale(n)

FailedPush(n) == \E i \in IndexCallsFor(n) : calls[i][3] = "raise"

\* C4: in a pass where only searcher.index raises, the error list holds
\* exactly one entry per failed push, in order, naming the node; a failed
\* node stays in the indexed-id set, is not removed and keeps its old
\* document; and the pass ends with one push attempted for every node due a
\* document and with the reconciliation search answered.
C4_PushFaultIsolated ==
    (NoFaultBut({"index"}) /\ \E n \in DOMAIN tree : FailedPush(n)) =>
        /\ error_list = ExpectedErrors(calls)
        /\ \A n \in DOMAIN tree :
              FailedPush(n) =>
                 /\ Cardinality({i \in DOMAIN error_list : NamesNode(error_list[i], n)}) = 1
                 /\ item_id_of(n) \in indexed_items
                 /\ item_id_of(n) \notin RemoveArgs
                 /\ \A d \in engine0 : d.id = item_id_of(n) => d \in engine
        /\ PassOver =>
              /\ \A n \in DOMAIN tree :
                    Cardinality(IndexCallsFor(n)) = IF ShouldPush(n) THEN 1 ELSE 0
              /\ ReconcileCompleted

\* the push of one node failed, a later push was taken, the reconciliation
\* ran and removed something, and the failed node kept its old document
C4_Witness ==
    /\ ReconcileCompleted
    /\ NoFaultBut({"index"})
    /\ RemoveArgs # {}
    /\ \E n, m \in DOMAIN tree :
          /\ FailedPush(n)
          /\ OldDoc(course_key, n) \in engine
          /\ \E i \in IndexCallsFor(n), j \in IndexCallsFor(m) :
                i < j /\ calls[j][3] = "ok"

---------------------------------------------------------------------------
(* C5 *)

\* C5: when modulestore.get_course raises, the pass ends with exactly one
\* general error entry and either returns or raises SearchIndexingError.
C5_TreeFaultCaught ==
    (pc = "done" /\ RaisedIn("get_course")) =>
        /\ error_list = <<general_error>>
        /\ \/ result[1] = "return"
           \/ result[1] = "raise" /\ result[2] = "SearchIndexingError"

---------------------------------------------------------------------------
(* C6 *)

\* C6: without a search engine index_course fetches no course, calls neither
\* index nor search nor remove, leaves the engine's documents and the error
\* list as they were, and returns (it never raises), whatever raise_on_error.
C6_NoEngineNoOp ==
    ~searcherAvail =>
        /\ \A i \in DOMAIN calls : calls[i][1] \in {"get_search_engine", "emit"}
        /\ course = None
        /\ engine = engine0
        /\ error_list = <<>>
        /\ pc \in {"idle", "get_search_engine", "track", "done"}
        /\ pc \in {"track", "done"} => ret = <<"return", None>>

\* index_course(raise_on_error=True) has returned without an engine, over a
\* course with nodes and an index with documents
C6_Witness ==
    /\ ~searcherAvail
    /\ pc = "done"
    /\ entry = "index_course"
    /\ raise_on_error
    /\ tree # <<>>
    /\ engine # {}

---------------------------------------------------------------------------
(* C7 *)

\* C7: with an engine and a course fetched, index_course ends by raising
\* SearchIndexingError exactly when raise_on_error is set and the error list
\* is not empty; the error raised carries the errors of the pass in the order
\* they happened; otherwise index_course returns indexed_count.
C7_RaiseIffErrors ==
    (pc \in {"track", "done"} /\ searcherAvail /\ ~RaisedIn("get_course")) =>
        /\ ret[1] = "raise" <=> (raise_on_error /\ error_list # <<>>)
        /\ ret[1] = "raise" =>
              /\ ret[2] = "SearchIndexingError"
              /\ ret[4] = ExpectedErrors(calls)
        /\ ret[1] # "raise" => ret = <<"return", Some(indexed_count)>>

\* a pass that raised with two errors: a failed push, then a general one
C7_Witness ==
    /\ pc = "done"
    /\ ret[1] = "raise"
    /\ Len(ret[4]) = 2
    /\ Len(ret[4][1]) = 2
    /\ ret[4][2] = general_error

---------------------------------------------------------------------------
(* C8 *)

\* Scenario A: one indexable child of the course with something to index, an
\* empty index, nothing raises
ScenarioA ==
    /\ Len(tree) = 1
    /\ tree[1].indexable /\ tree[1].dict = TitleDict
    /\ engine0 = {}
    /\ AnsweredIn("get_course")
    /\ NoFaultBut({})

\* C8: in Scenario A one document is pushed, nothing is removed and the
\* count returned is 1.
C8_CountReflectsPush ==
    (pc = "done" /\ ScenarioA) =>
        /\ Cardinality(CallIdx("index")) = 1
        /\ RemoveArgs = {}
        /\ result = <<"return", Some(1)>>

---------------------------------------------------------------------------
(* C9 *)

EngineIds == {d.id : d \in engine}

ErrorFreePass == pc = "done" /\ ReconcileCompleted /\ error_list = <<>>

\* C9 as stated: after an error-free pass no node of the tree that is not
\* indexable has a document in the index.
C9_DemotedPurged ==
    ErrorFreePass =>
        \A n \in DOMAIN tree : ~tree[n].indexable => item_id_of(n) \notin EngineIds

\* C9, amended: after an error-free pass no node of the tree that is not
\* indexable and has no children (has_children false) has a document in the
\* index.
C9_DemotedLeafPurged ==
    ErrorFreePass =>
        \A n \in DOMAIN tree :
            (~tree[n].indexable /\ ~tree[n].has_children) => item_id_of(n) \notin EngineIds

\* an error-free pass removed the old document of a node that is in the tree,
\* not indexable and without children
C9_Witness ==
    /\ ErrorFreePass
    /\ \E n \in DOMAIN tree :
          /\ ~tree[n].indexable /\ ~tree[n].has_children
          /\ OldDoc(course_key, n) \in engine0
          /\ item_id_of(n) \in RemoveArgs
          /\ item_id_of(n) \notin EngineIds

---------------------------------------------------------------------------
(* C10 *)

\* C10: do_course_reindex runs index_course with raise_on_error=True; an
\* event is emitted at most once, as the last call, named
\* edx.course.index.reindexed and carrying the value index_course returned
\* and the category courseware_index; when do_course_reindex is over the event
\* was emitted exactly if index_course returned, and what index_course raised
\* is what do_course_reindex raises.
C10_ReindexEvent ==
    /\ entry = "do_course_reindex" => raise_on_error
    /\ Len(events) <= 1
    /\ events # <<>> =>
          /\ entry = "do_course_reindex"
          /\ pc = "done"
          /\ calls[Len(calls)] = <<"emit", events[1], "ok">>
          /\ Cardinality(CallIdx("emit")) = 1
          /\ ret[1] = "return"
          /\ events[1] = <<"edx.course.index.reindexed",
                           [indexed_count |-> ret[2], category |-> "courseware_index"]>>
          /\ result = ret
    /\ (entry = "do_course_reindex" /\ pc = "done") =>
          /\ events # <<>> <=> ret[1] = "return"
          /\ ret[1] = "raise" => (result = ret /\ CallIdx("emit") = {})

\* do_course_reindex has emitted the event after a pass that pushed and
\* removed documents
C10_Witness ==
    /\ entry = "do_course_reindex"
    /\ pc = "done"
    /\ Len(events) = 1
    /\ PushedDocs # {}
    /\ RemoveArgs # {}

---------------------------------------------------------------------------
(* C11 *)

\* triggered_at is absent, or n and every node above it were edited at most
\* the threshold before triggered_at
FreshPath(n) ==
    \/ triggered_at = None
    \/ \A a \in Ancestors(n) \cup {n} :
          triggered_at[1] - tree[a].subtree_edited_on <= REINDEX_AGE

\* C11: once the walk is over, an indexable node with something to index for
\* which triggered_at is absent, or whose own age and whose ancestors' ages
\* are at most 60 seconds, has had exactly one document handed to
\* searcher.index.
C11_FreshNodeIndexed ==
    (entry # "none" /\ WalkCompleted) =>
        \A n \in DOMAIN tree :
            (tree[n].indexable /\ Truthy(tree[n].dict) /\ FreshPath(n)) =>
                Cardinality(IndexCallsFor(n)) = 1

\* a triggered pass pushed the document of a node whose parent's age is
\* exactly the threshold
C11_Witness ==
    /\ WalkCompleted
    /\ triggered_at # None
    /\ \E n \in DOMAIN tree :
          /\ Ancestors(n) # {}
          /\ \A a \in Ancestors(n) \cup {n} :
                triggered_at[1] - tree[a].subtree_edited_on = REINDEX_AGE
          /\ \E i \in IndexCallsFor(n) : calls[i][3] = "ok"

---------------------------------------------------------------------------
(* C12 *)

\* C12: below a frame of index_item entered with skip_index set every frame
\* was entered with skip_index set, whatever its item's own age; an item
\* walked with skip_index set is in the indexed-id set once past line 64; and
\* a step of such an item calls neither index_dictionary nor searcher.index.
C12_SkipMonotone ==
    /\ [](\A i \in DOMAIN stack :
            /\ (i > 1 /\ stack[i - 1].skip_index) => stack[i].skip_index
            /\ (stack[i].skip_index /\ stack[i].phase = "children") =>
                  item_id_of(stack[i].item) \in indexed_items)
    /\ [][(stack # <<>> /\ Top.skip_index) =>
             \A i \in (DOMAIN calls') \ (DOMAIN calls) :
                 calls'[i][1] \notin {"index_dictionary", "index"}]_vars

\* two nested frames entered with skip_index set, the inner one for a recorded,
\* indexable item edited within the threshold
C12_Witness ==
    /\ Len(stack) >= 3
    /\ stack[Len(stack) - 1].skip_index
    /\ Top.skip_index
    /\ Top.phase = "children"
    /\ ~Stale(Top.item)
    /\ ~Stale(stack[Len(stack) - 1].item)
    /\ tree[Top.item].indexable /\ Truthy(tree[Top.item].dict)
    /\ item_id_of(Top.item) \in indexed_items

---------------------------------------------------------------------------
(* C13 *)

\* the starts on the way from the course down to n
PathStarts(n) == {courseStart} \cup {tree[a].start : a \in Ancestors(n) \cup {n}}

\* the latest of a set of optional dates, empty when all are empty
Latest(S) ==
    IF \A d \in S : d = None THEN None
    ELSE CHOOSE d \in S : d # None /\ \A e \in S : e # None => e[1] <= d[1]

\* a is not later than b, an empty date being the earliest
NotLater(a, b) == a = None \/ (b # None /\ a[1] <= b[1])

\* C13: once line 68 is past, the current_start_date of a frame of
\* index_item is the latest non-empty start among the course, the item's
\* ancestors and the item (empty only when all are empty), and it is not
\* earlier than the one of the frame above (of the course, for a child of the
\* course).
C13_EffectiveStart ==
    \A i \in DOMAIN stack :
        stack[i].phase = "children" =>
            /\ stack[i].current_start_date = Latest(PathStarts(stack[i].item))
            /\ NotLater(IF i = 1 THEN courseStart ELSE stack[i - 1].current_start_date,
                        stack[i].current_start_date)

\* a third-level item keeps the later start of its grandparent although its
\* own start is set and earlier
C13_Witness ==
    /\ Len(stack) = 3
    /\ Top.phase = "children"
    /\ courseStart = Some(1)
    /\ tree[stack[1].item].start = Some(2)
    /\ tree[stack[2].item].start = None
    /\ tree[Top.item].start = Some(1)
    /\ Top.current_start_date = Some(2)

---------------------------------------------------------------------------
(* C14 *)

\* ids of the nodes that are indexable or have children
CandidateIds ==
    {item_id_of(n) : n \in {m \in DOMAIN tree : tree[m].indexable \/ tree[m].has_children}}

\* C14: the indexed-id set never holds anything but ids of nodes that are
\* indexable or have children, and once the walk is over it holds all of
\* them; for a node that is neither, nothing is built or pushed.
C14_IndexedIdSet ==
    /\ indexed_items \subseteq CandidateIds
    /\ WalkCompleted => indexed_items = CandidateIds
    /\ \A n \in DOMAIN tree :
          ~(tree[n].indexable \/ tree[n].has_children) =>
              BuildCallsFor(n) = {} /\ IndexCallsFor(n) = {}

\* the walk is over: a node whose push failed is recorded, a node neither
\* indexable nor with children is not
C14_Witness ==
    /\ WalkCompleted
    /\ \E n, m \in DOMAIN tree :
          /\ FailedPush(n)
          /\ item_id_of(n) \in indexed_items
          /\ ~(tree[m].indexable \/ tree[m].has_children)
          /\ item_id_of(m) \notin indexed_items

---------------------------------------------------------------------------
(* C15 *)

\* doc is what the code is to hand to searcher.index for node n: the node's
\* mapping over {course}, the id forced, start_date forced when the effective
\* start date is not empty
DocumentOf(doc, n) ==
    LET m == tree[n].dict
        eff == Latest(PathStarts(n))
    IN /\ DOMAIN doc = {"course", "id"} \cup DOMAIN m
                         \cup (IF eff # None THEN {"start_date"} ELSE {})
       /\ doc.id = item_id_of(n)
       /\ doc.course = IF "course" \in DOMAIN m THEN m.course ELSE Unicode(course_key)
       /\ \A k \in DOMAIN m \ {"id", "course", "start_date"} : doc[k] = m[k]
       /\ IF eff # None THEN doc.start_date = eff[1]
          ELSE "start_date" \in DOMAIN m => doc.start_date = m.start_date

\* C15: every call of searcher.index follows the index_dictionary() call of
\* an indexable node that is not under a stale ancestor and has a non-empty
\* mapping, and hands over that mapping laid over {course}, with the node's
\* own id and with start_date set to the effective start date when that is
\* not empty; a node with an empty mapping gets no call, though it is in the
\* indexed-id set once the walk is over.
C15_DocumentFields ==
    /\ \A i \in CallIdx("index") :
          /\ i > 1
          /\ calls[i - 1][1] = "index_dictionary"
          /\ LET n == calls[i - 1][2]
             IN /\ tree[n].indexable /\ Truthy(tree[n].dict) /\ ~UnderStale(n)
                /\ DocumentOf(calls[i][2], n)
                /\ IndexCallsFor(n) = {i}
    /\ \A n \in DOMAIN tree :
          (tree[n].indexable /\ ~Truthy(tree[n].dict)) =>
              /\ IndexCallsFor(n) = {}
              /\ WalkCompleted => item_id_of(n) \in indexed_items

\* the engine took the document of a node with an effective start date whose
\* mapping brings another id, and the document of a node without one whose
\* mapping brings a title only: it has the course key and no start_date; an
\* indexable node with an empty mapping is recorded without a document
C15_Witness ==
    /\ WalkCompleted
    /\ \E k \in DOMAIN tree :
          /\ tree[k].dict = TitleDict
          /\ Latest(PathStarts(k)) = None
          /\ \E i \in IndexCallsFor(k) :
                /\ calls[i][3] = "ok"
                /\ calls[i][2] = [course |-> Unicode(course_key),
                                  id |-> item_id_of(k), title |-> "x"]
                /\ calls[i][2] \in engine
    /\ \E n, m \in DOMAIN tree :
          /\ tree[n].dict = OverDict
          /\ Latest(PathStarts(n)) = Some(1)
          /\ \E i \in IndexCallsFor(n) :
                /\ calls[i][3] = "ok"
                /\ calls[i][2].id # tree[n].dict.id
                /\ calls[i][2] \in engine
          /\ tree[m].indexable /\ tree[m].dict = EmptyDict
          /\ item_id_of(m) \in indexed_items
          /\ IndexCallsFor(m) = {}

---------------------------------------------------------------------------
(* C16 *)

WalkCalls == CallIdx("index") \cup CallIdx("index_dictionary") \cup CallIdx("get_children")

\* C16: searcher.search is called at most once, after every call of the walk,
\* with no frame of index_item and no child of the course left, and its
\* exclusion set holds the id of every node that is indexable or has
\* children; when get_children or index_dictionary raised there is no search
\* and no remove call, and every id the engine held still has a document.
C16_SearchAfterWalk ==
    /\ Cardinality(CallIdx("search")) <= 1
    /\ \A i \in CallIdx("search") :
          /\ \A j \in WalkCalls : j < i
          /\ stack = <<>> /\ rootKids = <<>>
          /\ calls[i][2].exclude_ids = CandidateIds
    /\ (RaisedIn("get_children") \/ RaisedIn("index_dictionary")) =>
          /\ CallIdx("search") = {}
          /\ CallIdx("remove") = {}
          /\ \A d \in engine0 : d.id \in EngineIds

\* a pass that pushed a document, was then aborted by get_children of a later
\* node, and ended with the document of a block gone from the tree still there
C16_Witness ==
    /\ pc = "done"
    /\ PushedDocs # {}
    /\ \E i \in CallIdx("get_children") : calls[i][3] = "raise" /\ calls[i][2] # 0
    /\ OldDoc(course_key, MaxNodes + 1) \in engine

---------------------------------------------------------------------------
(* C17 *)

RemovedOk == {calls[i][2] : i \in {j \in CallIdx("remove") : calls[j][3] = "ok"}}

\* C17: when searcher.search or searcher.remove raises, that call is the last
\* call of the pass, the error list ends with the one general entry it
\* holds, the pass ends by returning indexed_count or by raising
\* SearchIndexingError with the error list, and the engine holds what the
\* walk left minus the ids removed before the fault.
C17_ReconcileFaultCaught ==
    \A i \in CallIdx("search") \cup CallIdx("remove") :
        calls[i][3] = "raise" =>
            /\ i = Len(calls)
            /\ error_list # <<>>
            /\ error_list[Len(error_list)] = <<"General indexing error occurred">>
            /\ Cardinality({k \in DOMAIN error_list : Len(error_list[k]) = 1}) = 1
            /\ pc \in {"finish", "done"}
            /\ pc = "done" =>
                  /\ result = ret
                  /\ IF raise_on_error
                     THEN ret[1] = "raise" /\ ret[2] = "SearchIndexingError"
                          /\ ret[4] = error_list
                     ELSE ret = <<"return", Some(indexed_count)>>
            /\ engine = {d \in EngineAfterWalk : d.id \notin RemovedOk}

\* a pass pushed a document, removed one, and ended after the next
\* searcher.remove raised
C17_Witness ==
    /\ pc = "done"
    /\ PushedDocs # {}
    /\ RemovedOk # {}
    /\ RaisedIn("remove")
    /\ PushedDocs \subseteq engine

---------------------------------------------------------------------------
(* C18 *)

Subtree(n) == {n} \cup {m \in DOMAIN tree : n \in Ancestors(m)}

\* n comes before m among the children their parent answers
EarlierSibling(n, m) ==
    /\ tree[n].parent = tree[m].parent
    /\ LET kids == Children(tree, tree[n].parent)
       IN \E i, j \in DOMAIN kids : i < j /\ kids[i] = n /\ kids[j] = m

\* C18: a push for a node comes after every push for a node below it; every
\* push in the subtree of an earlier sibling comes before every push in the
\* subtree of a later one; and a step that pushes a document finds the id of
\* the node and of every node above it already in the indexed-id set.
C18_PushOrder ==
    /\ [](\A n, m \in DOMAIN tree :
            /\ n \in Ancestors(m) =>
                  \A i \in IndexCallsFor(m), j \in IndexCallsFor(n) : i < j
            /\ EarlierSibling(n, m) =>
                  \A a \in Subtree(n), b \in Subtree(m) :
                     \A i \in IndexCallsFor(a), j \in IndexCallsFor(b) : i < j)
    /\ [][\A i \in (DOMAIN calls') \ (DOMAIN calls) :
             calls'[i][1] = "index" =>
                 \A n \in DOMAIN tree :
                     (\E m \in Subtree(n) : calls'[i][2].id = item_id_of(m)) =>
                         item_id_of(n) \in indexed_items]_vars

\* a node below the course has two children, the earlier one with a child of
\* its own: the documents of the earlier child's subtree were pushed before
\* the later child's, and the parent's after them all
C18_Witness ==
    \E p, n, c, m \in DOMAIN tree :
        /\ tree[n].parent = p /\ tree[m].parent = p /\ tree[c].parent = n
        /\ EarlierSibling(n, m)
        /\ \E ic \in IndexCallsFor(c), in \in IndexCallsFor(n),
              im \in IndexCallsFor(m), ip \in IndexCallsFor(p) :
              /\ ic < in /\ in < im /\ im < ip
              /\ \A i \in {ic, in, im, ip} : calls[i][3] = "ok"

---------------------------------------------------------------------------
(* C19: passes that interleave, passes that run one at a time *)

\* no pass was stopped before it was over
Serial == ~sched.overlapped

\* the pass that is not stepping is over, it reconciled and recorded no error
OtherErrorFree ==
    /\ sched.other.pc = "done"
    /\ sched.other.error_list = <<>>
    /\ \E i \in DOMAIN sched.other.calls :
          sched.other.calls[i][1] = "search" /\ sched.other.calls[i][3] = "ok"
    /\ \A i \in DOMAIN sched.other.calls :
          sched.other.calls[i][1] = "remove" => sched.other.calls[i][3] = "ok"

\* the pass that is not stepping pushed a document for node n
OtherPushed(n) ==
    \E i \in DOMAIN sched.other.calls :
        /\ sched.other.calls[i][1] = "index"
        /\ sched.other.calls[i][3] = "ok"
        /\ sched.other.calls[i][2].id = item_id_of(n)

\* C19 as stated, for passes one at a time: an error-free full pass over
\* the course as it is now never ends with an indexable node of the tree that
\* has no document.
C19_SerialNoLoss ==
    (/\ Serial
     /\ ErrorFreePass
     /\ triggered_at = None
     /\ sched.active \notin sched.oldView) =>
        \A n \in DOMAIN tree :
            tree[n].indexable => item_id_of(n) \in EngineIds

\* C19: when passes run one at a time, an error-free full pass that fetched
\* the course as it is now ends with the document it pushed in the index,
\* for every indexable node with a non-empty field mapping; and in every
\* interleaving the search of a pass answers every document of the course
\* whose id that pass did not itself record, whichever pass pushed it.
C19_SerialNoLossFetched ==
    /\ []((/\ Serial
           /\ ErrorFreePass
           /\ triggered_at = None
           /\ sched.active \notin sched.oldView) =>
             \A n \in DOMAIN tree :
                 (tree[n].indexable /\ Truthy(tree[n].dict)) =>
                     \E i \in IndexCallsFor(n) :
                         calls[i][3] = "ok" /\ calls[i][2] \in engine)
    /\ [][(sched' = sched /\ pc = "search" /\ pc' # "search") =>
             Range(result_ids') = CourseIds(engine) \ indexed_items]_vars

\* pass A walked before node n was there, pass B walked after and pushed its
\* document, A reconciled and removed it: both passes are over without an
\* error and the index has no document for n
C19_Witness ==
    /\ sched.overlapped
    /\ sched.edited
    /\ ErrorFreePass
    /\ OtherErrorFree
    /\ sched.oldView = {sched.active}
    /\ \E n \in DOMAIN tree :
          /\ tree[n].indexable /\ Truthy(tree[n].dict)
          /\ item_id_of(n) \notin indexed_items
          /\ OtherPushed(n)
          /\ item_id_of(n) \in RemovedOk
          /\ item_id_of(n) \notin EngineIds

---------------------------------------------------------------------------
(* C20: a second full pass over the same tree *)

\* the documents of the course in index e
CourseDocs(e) == {d \in e : d.course = Unicode(course_key)}

\* the pass that is stepping was called when a first pass, full and without
\* a failing call, was over, and the tree is the one the first pass walked
SecondPass ==
    /\ Serial
    /\ ~sched.edited
    /\ OtherErrorFree
    /\ sched.other.triggered_at = None

\* C20: a full pass that follows an error-free full pass over the same tree
\* makes no remove call, and when it is over without a failing call the
\* documents of the course in the index are the ones, ids and fields, that
\* were there when it was called.
C20_SecondPassIdempotent ==
    /\ SecondPass => CallIdx("remove") = {}
    /\ (SecondPass /\ ErrorFreePass /\ triggered_at = None) =>
           CourseDocs(engine) = CourseDocs(engine0)

\* the first pass removed a document, the second pass pushed one again and
\* is over
C20_Witness ==
    /\ SecondPass
    /\ ErrorFreePass
    /\ \E i \in DOMAIN sched.other.calls : sched.other.calls[i][1] = "remove"
    /\ \E i \in CallIdx("index") : calls[i][3] = "ok"
    /\ CourseDocs(engine) # {}

====
